---------------------------- MODULE Spec2Model ----------------------------
(***************************************************************************)
(* State-machine model of cxid9114_gain:                                   *)
(*   - geom/geom_utils.py          (geometry conversion, frame reshaping)  *)
(*   - format/FormatD9114.py       (format reader: recognition, tiling)    *)
(*   - two_color_refuge/two_color_indexer.py (two-colour indexer)          *)
(* Floating-point values are modelled as exact integers or rationals.      *)
(***************************************************************************)
EXTENDS Integers, Sequences, FiniteSets, TLC

VARIABLES
    g_op,       \* geometry: name of the last geom_utils function called
    g_in,       \* geometry: its arguments
    g_out,      \* geometry: its return value (or the exception it raised)
    f_pc,       \* format: "file" | "understood" | "constructed" | "failed"
    f_file,     \* format: the user's configuration document (image_file)
    f_self,     \* format: the fields of the FormatD9114 instance
    f_data,     \* format: get_raw_data's local corrected frame `data`
    f_calls,    \* format: the common-mode routines get_raw_data called
    f_ret,      \* format: what the last call returned or raised
    l_pc,       \* lattice search: "start" | "returned" | "raised"
    l_cands,    \* lattice search: candidate_orientation_matrices of the solver
    l_good,     \* lattice search: good_mats, the candidates the cell filter kept
    l_models,   \* lattice search: self.candidate_crystal_models
    l_ret,      \* lattice search: what find_lattices returned or raised
    i_pc,       \* indexer: the point index() has reached
    reflections,            \* indexer: the reflection table, one record per row
    d_min,                  \* indexer: the resolution cutoff, << >> for None
    isel,                   \* indexer: rows selected by index_reflections_detail
    n_rejects,              \* indexer: the reject counter of the assignment step
    shoebox,                \* indexer: the shoebox column while it is read
    variance,               \* indexer: the xyzobs.px.variance column while it is read
    refined_experiments,    \* indexer: self.refined_experiments
    refined_reflections,    \* indexer: self.refined_reflections
    i_ret,                  \* indexer: what index() returned or raised
    v_pc,           \* grid search: "select" | "chosen" | "raised"
    vectors,        \* grid search: the candidate vectors, best score first
    v_i,            \* grid search: the loop index i of the selection
    unique_vectors, \* grid search: the vectors kept so far
    v_ret           \* grid search: what the selection returned or raised

geomVars == <<g_op, g_in, g_out>>
formatVars == <<f_pc, f_file, f_self, f_data, f_calls, f_ret>>
latticeVars == <<l_pc, l_cands, l_good, l_models, l_ret>>
indexVars == <<i_pc, reflections, d_min, isel, n_rejects, shoebox, variance,
               refined_experiments, refined_reflections, i_ret>>
gridVars == <<v_pc, vectors, v_i, unique_vectors, v_ret>>
vars == <<geomVars, formatVars, latticeVars, indexVars, gridVars>>
notGeomVars == <<formatVars, latticeVars, indexVars, gridVars>>
notFormatVars == <<geomVars, latticeVars, indexVars, gridVars>>
notLatticeVars == <<geomVars, formatVars, indexVars, gridVars>>
notIndexVars == <<geomVars, formatVars, latticeVars, gridVars>>
notGridVars == <<geomVars, formatVars, latticeVars, indexVars>>

None == "None"

(***************************************************************************)
(* Small helpers                                                           *)
(***************************************************************************)
Min(a, b) == IF a <= b THEN a ELSE b

\* the outcome of a call: a returned value, a bare return (None), or a raise
Returned(v) == [status |-> "ok", value |-> v]

ReturnedNone == [status |-> "None", value |-> << >>]

Raised(e) == [status |-> e, value |-> << >>]

\* a rational number num/den (den > 0); floats of the source are exact here
Rat(n, d) == [num |-> n, den |-> d]

RatEq(x, y) == x.num * y.den = y.num * x.den

\* component-wise vector arithmetic on 3-vectors indexed 0..2 (numpy rows)
VecAdd(a, b) == [k \in 0..2 |-> a[k] + b[k]]

VecDiv(a, d) == [k \in 0..2 |-> Rat(a[k], d)]

Dot(a, b) == a[0] * b[0] + a[1] * b[1] + a[2] * b[2]

\* np.linalg.norm for vectors whose length is a whole number of model units
Norm(a) == CHOOSE n \in 0..Dot(a, a) : n * n = Dot(a, a)

(***************************************************************************)
(* geom/geom_utils.py                                                      *)
(*                                                                         *)
(* Lengths are counted in model units of 10.992 micrometers, so that the   *)
(* source's 109.92 um pixel is 10 units and its 274.8 um wide pixel is 25. *)
(* The conversion factors 1000 (um -> mm) and 109.92 um (um -> pixels) are *)
(* kept as denominators of exact rationals.                                *)
(***************************************************************************)
NSensors == 32          \* physical 2x1 sensors of the CSPAD
NAsics == 64            \* split tiles
NQuads == 4
AsicsPerQuad == 16
PixelSize == 10         \* 109.92 um
WidePixel == 25         \* 274.8 um
MmPerUm == 1000

\* Model stand-ins for the 194 x 185 tile: fast and slow pixel counts.
FDim == 2
SDim == 1
\* number of synthetic geometries / frames the inputs are drawn from
NGeom == 12
NFrames == 6

SensorCols == 2 * FDim  \* 388 columns of one sensor plane


(***************************************************************************)
(* Synthetic inputs of the geometry functions                              *)
(***************************************************************************)
\* fast-scan directions of length 10 (one pixel), axis aligned or tilted
FsDirs == <<
    [k \in 0..2 |-> IF k = 0 THEN 10 ELSE 0],
    [k \in 0..2 |-> IF k = 1 THEN 10 ELSE 0],
    [k \in 0..2 |-> IF k = 0 THEN -10 ELSE 0],
    [k \in 0..2 |-> IF k = 1 THEN -10 ELSE 0],
    [k \in 0..2 |-> IF k = 0 THEN 6 ELSE IF k = 1 THEN 8 ELSE 0],
    [k \in 0..2 |-> IF k = 0 THEN -8 ELSE IF k = 1 THEN 6 ELSE 0] >>

\* the slow-scan vector perpendicular to a fast-scan vector (in the xy plane)
Perp(f) == [k \in 0..2 |-> IF k = 0 THEN -f[1] ELSE IF k = 1 THEN f[0] ELSE 0]

\* geometry number p as get_psf() returns it: one (origin, slow, fast) per sensor
Psf32(p) ==
    [i \in 0..(NSensors - 1) |->
        LET f == FsDirs[((i + p) % 6) + 1]
            fs == [k \in 0..2 |-> f[k] * (1 + (p % 2))]
        IN  << [k \in 0..2 |-> IF k = 0 THEN 100 * i + p
                               ELSE IF k = 1 THEN 7 * p - i ELSE p],
               Perp(fs),
               fs >> ]

\* frame number n: a 32 x SDim x SensorCols array with pairwise distinct pixels
Frame(n) ==
    [i \in 0..(NSensors - 1) |->
        [r \in 0..(SDim - 1) |->
            [c \in 0..(SensorCols - 1) |->
                ((i * SDim + r) * SensorCols + c) * NFrames + n]]]

DTypes == {"int16", "float32", "float64"}

UnitNames == {"mm", "um", "pixels", "cm"}

(***************************************************************************)
(* psana_geom_splitter                                                     *)
(***************************************************************************)
ZeroVec == [k \in 0..2 |-> 0]

\* np.zeros((64, 3))
zeros_64 == [idx \in 0..(NAsics - 1) |-> ZeroVec]

shift == FDim * PixelSize + (WidePixel - PixelSize) * 2

\* unit_f * shift, with unit_f = FS / |FS|
unit_f_shift(FS) == [k \in 0..2 |-> (FS[k] * shift) \div Norm(FS)]

origin_B(origin_A, FS) == VecAdd(origin_A, unit_f_shift(FS))

idx_A(i) == 2 * i

idx_B_swapped(i) == 2 * i + 2

idx_B(i) == 2 * i + 1

\* the for-loop over the 32 sensors; a = the three 64-long arrays so far
RECURSIVE splitter_loop(_, _, _)
splitter_loop(i, psf, a) ==
    IF i = NSensors THEN a
    ELSE LET origin_A == psf[i][1]
             SS == psf[i][2]
             FS == psf[i][3]
             next == [
                origin_64 |-> [a.origin_64 EXCEPT ![idx_A(i)] = origin_A,
                                                  ![idx_B(i)] = origin_B(origin_A, FS)],
                FS_64 |-> [a.FS_64 EXCEPT ![idx_A(i)] = FS, ![idx_B(i)] = FS],
                SS_64 |-> [a.SS_64 EXCEPT ![idx_A(i)] = SS, ![idx_B(i)] = SS] ]
         IN  splitter_loop(i + 1, psf, next)

\* array / scalar
ArrayDiv(arr, d) == [idx \in DOMAIN arr |-> VecDiv(arr[idx], d)]

psana_geom_splitter(psf, returned_units) ==
    LET a == splitter_loop(0, psf,
                 [origin_64 |-> zeros_64, FS_64 |-> zeros_64, SS_64 |-> zeros_64])
    IN  IF returned_units = "mm"
        THEN Returned(<< ArrayDiv(a.origin_64, MmPerUm), ArrayDiv(a.SS_64, MmPerUm),
                         ArrayDiv(a.FS_64, MmPerUm) >>)
        ELSE IF returned_units = "um"
        THEN Returned(<< a.origin_64, a.SS_64, a.FS_64 >>)
        ELSE IF returned_units = "pixels"
        THEN Returned(<< ArrayDiv(a.origin_64, PixelSize), ArrayDiv(a.SS_64, PixelSize),
                         ArrayDiv(a.FS_64, PixelSize) >>)
        ELSE ReturnedNone

(***************************************************************************)
(* psana_data_to_aaron64_data                                              *)
(***************************************************************************)
\* asic[:, :n]
ColsUpTo(asic, n) ==
    [r \in DOMAIN asic |->
        [c \in 0..(Min(n, SensorCols) - 1) |-> asic[r][c]]]

ColsFrom_overlapping(asic, n) ==
    [r \in DOMAIN asic |->
        [c \in 0..(SensorCols - n) |-> asic[r][c + n - 1]]]

\* asic[:, n:]
ColsFrom(asic, n) ==
    [r \in DOMAIN asic |->
        [c \in 0..(SensorCols - n - 1) |-> asic[r][c + n]]]

\* the list comprehension and the nested append loop, sensor by sensor
RECURSIVE reshape_loop(_, _, _)
reshape_loop(i, data, asics) ==
    IF i = NSensors THEN asics
    ELSE reshape_loop(i + 1, data,
             asics \o << ColsUpTo(data[i], FDim), ColsFrom(data[i], FDim) >>)

psana_data_to_aaron64_data(data, dtype, as_flex) ==
    [ container |-> IF as_flex THEN "tuple" ELSE "list",
      dtype |-> IF as_flex THEN "float64" ELSE dtype,
      asics |-> reshape_loop(0, data, << >>) ]

(***************************************************************************)
(* make_dials_cspad / add_asics_to_quad                                    *)
(***************************************************************************)
\* "%d" % n for n >= 0, as the sequence of its decimal digits
RECURSIVE Digits(_)
Digits(n) ==
    LET d == <<"0", "1", "2", "3", "4", "5", "6", "7", "8", "9">>
    IN  IF n < 10 THEN << d[n + 1] >> ELSE Digits(n \div 10) \o << d[(n % 10) + 1] >>

asic_name(i_a) == <<"a", "s", "i", "c">> \o Digits(i_a)

quad_name(i_quad) == <<"q", "u", "a", "d">> \o Digits(i_quad)

\* i_a = quad_number*16 + _i
master_index(quad_number, i) == quad_number * AsicsPerQuad + i

\* the 16 panels added to one quad, or IndexError when i_a runs off the arrays
add_asics_to_quad(quad_number, asic_origins, asic_ss, asic_fs) ==
    IF \E i \in 0..(AsicsPerQuad - 1) :
           master_index(quad_number, i) \notin DOMAIN asic_ss
    THEN Raised("IndexError")
    ELSE Returned([i \in 0..(AsicsPerQuad - 1) |->
            LET i_a == master_index(quad_number, i)
            IN  [ local_frame |-> << asic_fs[i_a], asic_ss[i_a], asic_origins[i_a] >>,
                  pixel_size |-> << Rat(PixelSize, MmPerUm), Rat(PixelSize, MmPerUm) >>,
                  image_size |-> << FDim, SDim >>,
                  trusted_range |-> << -56, 65000 >>,
                  name |-> asic_name(i_a) ]])

\* psf = (origins, slows, fasts), each an array of vectors in micrometers
make_dials_cspad(psf) ==
    LET origins == ArrayDiv(psf[1], MmPerUm)
        slows == ArrayDiv(psf[2], MmPerUm)
        fasts == ArrayDiv(psf[3], MmPerUm)
        QUADS == [i_quad \in 0..(NQuads - 1) |->
                    add_asics_to_quad(i_quad, origins, slows, fasts)]
    IN  IF \E i_quad \in 0..(NQuads - 1) : QUADS[i_quad].status # "ok"
        THEN Raised("IndexError")
        ELSE Returned([i_quad \in 0..(NQuads - 1) |->
                [ name |-> quad_name(i_quad), panels |-> QUADS[i_quad].value ]])

\* get_psf() of a 32-sensor geometry laid out as (origins, slows, fasts)
PsfArrays(psf) ==
    << [i \in DOMAIN psf |-> psf[i][1]],
       [i \in DOMAIN psf |-> psf[i][2]],
       [i \in DOMAIN psf |-> psf[i][3]] >>

(***************************************************************************)
(* Geometry specification: one call of one of the three pure functions     *)
(***************************************************************************)
GeomIdle ==
    /\ g_op = "none"
    /\ g_in = << >>
    /\ g_out = ReturnedNone

FormatIdle ==
    /\ f_pc = "idle"
    /\ f_file = << >>
    /\ f_self = << >>
    /\ f_data = << >>
    /\ f_calls = << >>
    /\ f_ret = ReturnedNone

LatticeIdle ==
    /\ l_pc = "idle"
    /\ l_cands = << >>
    /\ l_good = << >>
    /\ l_models = << >>
    /\ l_ret = ReturnedNone

IndexIdle ==
    /\ i_pc = "idle"
    /\ reflections = << >>
    /\ d_min = << >>
    /\ isel = << >>
    /\ n_rejects = 0
    /\ shoebox = << >>
    /\ variance = << >>
    /\ refined_experiments = << >>
    /\ refined_reflections = << >>
    /\ i_ret = ReturnedNone

GridIdle ==
    /\ v_pc = "idle"
    /\ vectors = << >>
    /\ v_i = 0
    /\ unique_vectors = << >>
    /\ v_ret = ReturnedNone

InitGeom == GeomIdle /\ FormatIdle /\ LatticeIdle /\ IndexIdle /\ GridIdle

CallSplitter ==
    /\ g_op = "none"
    /\ \E p \in 0..(NGeom - 1), u \in UnitNames :
        /\ g_op' = "psana_geom_splitter"
        /\ g_in' = [psf |-> Psf32(p), returned_units |-> u]
        /\ g_out' = psana_geom_splitter(Psf32(p), u)
        /\ UNCHANGED notGeomVars

CallReshape ==
    /\ g_op = "none"
    /\ \E n \in 0..(NFrames - 1), dt \in DTypes, as_flex \in BOOLEAN :
        /\ g_op' = "psana_data_to_aaron64_data"
        /\ g_in' = [data |-> Frame(n), dtype |-> dt, as_flex |-> as_flex]
        /\ g_out' = Returned(psana_data_to_aaron64_data(Frame(n), dt, as_flex))
        /\ UNCHANGED notGeomVars

\* called with the 64-tile output of the splitter, or with the 32-sensor
\* geometry as it comes out of the psana geometry object
CallMakeCspad ==
    /\ g_op = "none"
    /\ \E p \in 0..(NGeom - 1), split \in BOOLEAN :
        LET psf == IF split THEN psana_geom_splitter(Psf32(p), "um").value
                   ELSE PsfArrays(Psf32(p))
        IN  /\ g_op' = "make_dials_cspad"
            /\ g_in' = [psf |-> psf]
            /\ g_out' = make_dials_cspad(psf)
            /\ UNCHANGED notGeomVars

NextGeom == CallSplitter \/ CallReshape \/ CallMakeCspad

SpecGeom == InitGeom /\ [][NextGeom]_vars


(***************************************************************************)
(* Claims about geom_utils                                                 *)
(***************************************************************************)
DocumentedUnits == {"mm", "um", "pixels"}

\* numerator and denominator of a returned coordinate in the requested unit
NumIn(x, u) == IF u = "um" THEN x ELSE x.num

DenIn(x, u) == IF u = "um" THEN 1 ELSE x.den

UnitDen(u) == IF u = "mm" THEN 1000 ELSE IF u = "pixels" THEN PixelSize ELSE 1

\* returned vector x is the micrometer vector v expressed in unit u
IsVecIn(x, v, u) ==
    \A k \in 0..2 : NumIn(x[k], u) = v[k] /\ DenIn(x[k], u) = UnitDen(u)

\* returned vector x is origin o moved along f / |f| by the inter-ASIC gap
IsShiftedIn(x, o, f, u) ==
    \A k \in 0..2 :
        /\ (NumIn(x[k], u) - o[k]) * Norm(f)
               = f[k] * (FDim * PixelSize + 2 * WidePixel - 2 * PixelSize)
        /\ DenIn(x[k], u) = UnitDen(u)

\* C8: for a 32-sensor input and each documented unit, psana_geom_splitter
\* returns (origins, slows, fasts) of exactly 64 entries each; tiles 2i and
\* 2i+1 carry sensor i's slow and fast vectors, tile 2i sensor i's origin and
\* tile 2i+1 that origin shifted along the normalized fast direction by
\* 194 pixels + 2 * (wide pixel - pixel), all expressed in the requested unit.
C8_SplitterTiles ==
    (g_op = "psana_geom_splitter" /\ g_in.returned_units \in DocumentedUnits) =>
        LET u == g_in.returned_units
            psf == g_in.psf
            out == g_out.value
        IN  /\ g_out.status = "ok"
            /\ Len(out) = 3
            /\ \A a \in 1..3 : DOMAIN out[a] = 0..63
            /\ \A i \in 0..31 :
                /\ IsVecIn(out[1][2 * i], psf[i][1], u)
                /\ IsShiftedIn(out[1][2 * i + 1], psf[i][1], psf[i][3], u)
                /\ IsVecIn(out[2][2 * i], psf[i][2], u)
                /\ IsVecIn(out[2][2 * i + 1], psf[i][2], u)
                /\ IsVecIn(out[3][2 * i], psf[i][3], u)
                /\ IsVecIn(out[3][2 * i + 1], psf[i][3], u)

\* the splitter has returned pixel units for a geometry whose sensor 0 is tilted
C8_Witness ==
    /\ g_op = "psana_geom_splitter"
    /\ g_in.returned_units = "pixels"
    /\ g_in.psf[0][3][0] # 0 /\ g_in.psf[0][3][1] # 0
    /\ g_out.status = "ok"
    /\ g_out.value[1][1] # g_out.value[1][0]

\* C9: psana_data_to_aaron64_data maps the 32 sensor planes to exactly 64
\* sub-planes of SDim rows by FDim columns; output 2i is sensor i's first FDim
\* columns and output 2i+1 its last FDim columns, so the two outputs side by
\* side are sensor i again.
C9_ReshapeTiles ==
    (g_op = "psana_data_to_aaron64_data") =>
        LET data == g_in.data
            asics == g_out.value.asics
        IN  /\ Len(asics) = 64
            /\ \A t \in 1..Len(asics) :
                /\ DOMAIN asics[t] = 0..(SDim - 1)
                /\ \A r \in 0..(SDim - 1) : DOMAIN asics[t][r] = 0..(FDim - 1)
            /\ \A i \in 0..31 : \A r \in 0..(SDim - 1) : \A c \in 0..(2 * FDim - 1) :
                data[i][r][c] = IF c < FDim THEN asics[2 * i + 1][r][c]
                                ELSE asics[2 * i + 2][r][c - FDim]

\* a frame has been reshaped into dense double-precision tiles
C9_Witness ==
    /\ g_op = "psana_data_to_aaron64_data"
    /\ g_in.as_flex
    /\ g_in.dtype = "float32"
    /\ g_out.value.dtype = "float64"
    /\ Len(g_out.value.asics) = 64
    /\ g_out.value.asics[64][0][0] = g_in.data[31][0][FDim]

\* the detector make_dials_cspad returned is the 4 x 16 hierarchy built from psf
IsCspadOf(det, psf) ==
    /\ DOMAIN det = 0..3
    /\ \A q \in 0..3 :
        /\ det[q].name = <<"q", "u", "a", "d">> \o Digits(q)
        /\ DOMAIN det[q].panels = 0..15
        /\ \A k \in 0..15 :
            LET m == 16 * q + k
                panel == det[q].panels[k]
            IN  /\ panel.name = <<"a", "s", "i", "c">> \o Digits(m)
                /\ m \in DOMAIN psf[1]
                /\ \A x \in 0..2 :
                    /\ panel.local_frame[1][x] = Rat(psf[3][m][x], 1000)
                    /\ panel.local_frame[2][x] = Rat(psf[2][m][x], 1000)
                    /\ panel.local_frame[3][x] = Rat(psf[1][m][x], 1000)
    /\ \A q1, q2 \in 0..3 : \A k1, k2 \in 0..15 :
        (det[q1].panels[k1].name = det[q2].panels[k2].name) => (q1 = q2 /\ k1 = k2)

\* C10: make_dials_cspad, given a 32-sensor geometry, completes and yields
\* quad0..quad3 with 16 tiles each; the tile at local index k of quadrant q is
\* named asic{16q+k}, takes its local frame from the geometry entry 16q+k, and
\* the 64 names are pairwise distinct.
C10_CspadFrom32Sensors ==
    (g_op = "make_dials_cspad" /\ DOMAIN g_in.psf[1] = 0..31) =>
        (g_out.status = "ok" /\ IsCspadOf(g_out.value, g_in.psf))


(***************************************************************************)
(* format/FormatD9114.py                                                   *)
(*                                                                         *)
(* A configuration document gives each option at most once: << v >> when   *)
(* the user sets it, << >> when it is left to the default scope.           *)
(***************************************************************************)
NImages == 2            \* events of the run (len(self.times))

\* the user documents the reader is tried on
ExperimentChoices == { << >>, << "cxid9114" >>, << "other" >> }

AlgoChoices ==
    { << >>, << "default" >>, << "pppg" >>, << "unbonded" >>, << "gain_switching" >> }

LowPeakChoices == { << >>, << <<-3, 3, 50>> >> }

HighPeakChoices == { << >>, << <<-20, 20, 400>> >> }

ConfigFiles ==
    [ experiment : ExperimentChoices,
      common_mode_algo : AlgoChoices,
      low_gain_zero_peak : LowPeakChoices,
      high_gain_zero_peak : HighPeakChoices ]

\* d9114_locator_scope: the defaults a user document is fetched against
d9114_locator_scope ==
    [ experiment |-> None,
      common_mode_algo |-> "pppg",
      low_gain_zero_peak |-> <<-5, 5, 100>>,
      high_gain_zero_peak |-> <<-10, 10, 200>>,
      savgol_polyorder |-> 3,
      savgol_windowlength |-> 51 ]

\* scope.fetch(user).extract() for one option
Fetch(user, default) == IF user = << >> THEN default ELSE user[1]

get_params(image_file) ==
    [ experiment |-> Fetch(image_file.experiment, d9114_locator_scope.experiment),
      common_mode_algo |->
          Fetch(image_file.common_mode_algo, d9114_locator_scope.common_mode_algo),
      low_gain_zero_peak |->
          Fetch(image_file.low_gain_zero_peak, d9114_locator_scope.low_gain_zero_peak),
      high_gain_zero_peak |->
          Fetch(image_file.high_gain_zero_peak, d9114_locator_scope.high_gain_zero_peak),
      savgol_polyorder |-> d9114_locator_scope.savgol_polyorder,
      savgol_windowlength |-> d9114_locator_scope.savgol_windowlength ]

understand_any_experiment(image_file) ==
    LET params == get_params(image_file)
    IN  params.common_mode_algo \in {"default", "pppg", "unbonded"}

understand(image_file) ==
    LET params == get_params(image_file)
    IN  /\ params.experiment = "cxid9114"
        /\ params.common_mode_algo \in {"default", "pppg", "unbonded"}

\* The variant that reads the high-gain triple from high_gain_zero_peak.
pppg_args_from_both_peaks(params) ==
    LET l1 == params.low_gain_zero_peak[1]
        l2 == params.low_gain_zero_peak[2]
        Nl == params.low_gain_zero_peak[3]
        h1 == params.high_gain_zero_peak[1]
        h2 == params.high_gain_zero_peak[2]
        Nh == params.high_gain_zero_peak[3]
    IN  [ low_x1 |-> l1, low_x2 |-> l2, Nlow |-> Nl,
          high_x1 |-> h1, high_x2 |-> h2, Nhigh |-> Nh,
          polyorder |-> params.savgol_polyorder,
          window_length |-> params.savgol_windowlength,
          inplace |-> TRUE, plot_details |-> FALSE, verbose |-> FALSE,
          plot_metric |-> FALSE ]

\* _set_pppg_args: both triples are read from low_gain_zero_peak
pppg_args_of(params) ==
    LET l1 == params.low_gain_zero_peak[1]
        l2 == params.low_gain_zero_peak[2]
        Nl == params.low_gain_zero_peak[3]
        h1 == params.low_gain_zero_peak[1]
        h2 == params.low_gain_zero_peak[2]
        Nh == params.low_gain_zero_peak[3]
    IN  [ low_x1 |-> l1, low_x2 |-> l2, Nlow |-> Nl,
          high_x1 |-> h1, high_x2 |-> l2, Nhigh |-> Nh,
          polyorder |-> params.savgol_polyorder,
          window_length |-> params.savgol_windowlength,
          inplace |-> TRUE, plot_details |-> FALSE, verbose |-> FALSE,
          plot_metric |-> FALSE ]

\* calibration of the run, as the detector interface hands it out
GainFactor == 7         \* self.cspad._gain_mask_factor

Pedestals ==
    [i \in 0..(NSensors - 1) |->
        [r \in 0..(SDim - 1) |-> [c \in 0..(SensorCols - 1) |-> 1 + ((i + c) % 3)]]]

GainMask ==
    [i \in 0..(NSensors - 1) |->
        [r \in 0..(SDim - 1) |-> [c \in 0..(SensorCols - 1) |-> (i + r + c) % 2 = 1]]]

\* __init__: the instance fields get_raw_data reads
new_instance(image_file) ==
    LET params == get_params(image_file)
    IN  [ params |-> params,
          dark |-> Pedestals,
          gain |-> GainMask,
          nominal_gain_val |-> GainFactor,
          n_images |-> NImages,
          pppg_args |-> pppg_args_of(params),
          raw_data |-> << >> ]

\* raw - self.dark, element by element
SubtractDark(raw, dark) ==
    [i \in DOMAIN raw |-> [r \in DOMAIN raw[i] |-> [c \in DOMAIN raw[i][r] |->
        raw[i][r][c] - dark[i][r][c]]]]

\* data[self.gain] = data[self.gain] * self.nominal_gain_val
ScaleGain(data, gain, factor) ==
    [i \in DOMAIN data |-> [r \in DOMAIN data[i] |-> [c \in DOMAIN data[i][r] |->
        IF gain[i][r][c] THEN data[i][r][c] * factor ELSE data[i][r][c]]]]

\* The common-mode routines are not part of this repository.  Each call is
\* recorded, and its in-place effect on the frame is a fixed offset per
\* routine and parameter set, subtracted from every pixel.
CommonModeOffset(call) ==
    IF call.fn = "common_mode_apply" THEN call.args[1] ELSE call.args.Nlow

ApplyCommonMode(data, call) ==
    [i \in DOMAIN data |-> [r \in DOMAIN data[i] |-> [c \in DOMAIN data[i][r] |->
        data[i][r][c] - CommonModeOffset(call)]]]

\* The variant in which the unbonded selector gets the default parameters.
common_mode_calls_one_parameter_set(self) ==
    IF self.params.common_mode_algo \in {"default", "unbonded"}
    THEN << [fn |-> "common_mode_apply", args |-> <<1, 25, 25, 100, 1>>] >>
    ELSE IF self.params.common_mode_algo = "pppg"
    THEN << [fn |-> "pppg", args |-> self.pppg_args] >>
    ELSE << >>

\* the calls the if / elif chain of get_raw_data makes for a selector
common_mode_calls(self) ==
    IF self.params.common_mode_algo = "default"
    THEN << [fn |-> "common_mode_apply", args |-> <<1, 25, 25, 100, 1>>] >>
    ELSE IF self.params.common_mode_algo = "unbonded"
    THEN << [fn |-> "common_mode_apply", args |-> <<5, 0, 0, 0, 0>>] >>
    ELSE IF self.params.common_mode_algo = "pppg"
    THEN << [fn |-> "pppg", args |-> self.pppg_args] >>
    ELSE << >>

RECURSIVE ApplyCalls(_, _)
ApplyCalls(data, calls) ==
    IF calls = << >> THEN data
    ELSE ApplyCalls(ApplyCommonMode(data, Head(calls)), Tail(calls))

\* the corrected frame just before it is cut into tiles
corrected_frame(self, raw) ==
    ScaleGain(ApplyCalls(SubtractDark(raw, self.dark), common_mode_calls(self)),
              self.gain, self.nominal_gain_val)

\* cctbx_det.hierarchy(): quadrants of sensors of ASICs, each ASIC with its
\* image size (fast, slow)
SensorsPerQuad == 8
AsicsPerSensor == 2

DetectorHierarchy ==
    [q \in 0..(NQuads - 1) |->
        [sn \in 0..(SensorsPerQuad - 1) |->
            [a \in 0..(AsicsPerSensor - 1) |-> [image_size |-> << FDim, SDim >>]]]]

\* plane[:, lo:hi], clipped to the plane as a slice is
ColSlice(plane, lo, hi) ==
    [r \in DOMAIN plane |->
        [c \in 0..(Min(hi, SensorCols) - lo - 1) |-> plane[r][c + lo]]]

sensor_index_4(sensor_count, quad_count) == sensor_count + quad_count * 4

\* sensor_count + quad_count * 8
sensor_index(sensor_count, quad_count) == sensor_count + quad_count * 8

asic_data(data, det, quad_count, sensor_count, asic_count) ==
    LET fdim == det[quad_count][sensor_count][asic_count].image_size[1]
    IN  ColSlice(data[sensor_index(sensor_count, quad_count)],
                 asic_count * fdim, (asic_count + 1) * fdim)

\* the three nested enumerate loops of get_raw_data: each returns what its
\* iterations from the given count on append to self._raw_data, in order
RECURSIVE asic_loop(_, _, _, _, _)
asic_loop(data, det, quad_count, sensor_count, asic_count) ==
    IF asic_count \notin DOMAIN det[quad_count][sensor_count] THEN << >>
    ELSE << asic_data(data, det, quad_count, sensor_count, asic_count) >>
         \o asic_loop(data, det, quad_count, sensor_count, asic_count + 1)

RECURSIVE sensor_loop(_, _, _, _)
sensor_loop(data, det, quad_count, sensor_count) ==
    IF sensor_count \notin DOMAIN det[quad_count] THEN << >>
    ELSE asic_loop(data, det, quad_count, sensor_count, 0)
         \o sensor_loop(data, det, quad_count, sensor_count + 1)

RECURSIVE quad_loop(_, _, _)
quad_loop(data, det, quad_count) ==
    IF quad_count \notin DOMAIN det THEN << >>
    ELSE sensor_loop(data, det, quad_count, 0) \o quad_loop(data, det, quad_count + 1)

tile_frame(data, det) == quad_loop(data, det, 0)


(***************************************************************************)
(* Format specification: the reader is tried on one configuration          *)
(* document, either by the command-line entry point (understand) or by     *)
(* constructing an instance and reading images from it.                    *)
(***************************************************************************)
InitFormat ==
    /\ GeomIdle
    /\ LatticeIdle
    /\ IndexIdle
    /\ GridIdle
    /\ f_pc = "file"
    /\ f_file \in ConfigFiles
    /\ f_self = << >>
    /\ f_data = << >>
    /\ f_calls = << >>
    /\ f_ret = ReturnedNone

\* __main__: print(FormatD9114.understand(arg))
Understand ==
    /\ f_pc = "file"
    /\ f_pc' = "understood"
    /\ f_ret' = Returned(understand(f_file))
    /\ UNCHANGED <<f_file, f_self, f_data, f_calls>>
    /\ UNCHANGED notFormatVars

\* FormatD9114.__init__: assert self.understand(image_file), then the fields
Construct ==
    /\ f_pc = "file"
    /\ IF understand(f_file)
       THEN /\ f_pc' = "constructed"
            /\ f_self' = new_instance(f_file)
            /\ f_ret' = ReturnedNone
       ELSE /\ f_pc' = "failed"
            /\ f_self' = f_self
            /\ f_ret' = Raised("AssertionError")
    /\ UNCHANGED <<f_file, f_data, f_calls>>
    /\ UNCHANGED notFormatVars

\* FormatD9114.__init__ under python -O, which drops the assert statement
\* of line 48: a document the recognition check turns down is constructed
\* all the same.
ConstructUnchecked ==
    /\ f_pc = "file"
    /\ ~understand(f_file)
    /\ f_pc' = "constructed"
    /\ f_self' = new_instance(f_file)
    /\ f_ret' = ReturnedNone
    /\ UNCHANGED <<f_file, f_data, f_calls>>
    /\ UNCHANGED notFormatVars

\* get_raw_data(index); an index outside the run's events fails in _get_event
GetRawData ==
    /\ f_pc = "constructed"
    /\ \E index \in 0..NImages :
        IF index >= f_self.n_images
        THEN /\ f_ret' = Raised("IndexError")
             /\ UNCHANGED <<f_self, f_data, f_calls>>
        ELSE LET data == corrected_frame(f_self, Frame(index))
                 raw_data == tile_frame(data, DetectorHierarchy)
             IN  /\ f_data' = data
                 /\ f_calls' = common_mode_calls(f_self)
                 /\ f_self' = [f_self EXCEPT !.raw_data = raw_data]
                 /\ f_ret' = Returned(raw_data)
    /\ UNCHANGED <<f_pc, f_file>>
    /\ UNCHANGED notFormatVars

NextFormat == Understand \/ Construct \/ ConstructUnchecked \/ GetRawData

SpecFormat == InitFormat /\ [][NextFormat]_vars

(***************************************************************************)
(* Claims about FormatD9114                                                *)
(***************************************************************************)
\* C1: understand returns true exactly for the documents whose parsed
\* experiment is "cxid9114" and whose parsed common_mode_algo (pppg when the
\* document does not set it) is default, pppg or unbonded; for every other
\* document it returns false, and it never raises.
C1_UnderstandIff ==
    (f_pc = "understood") =>
        /\ f_ret.status = "ok"
        /\ f_ret.value \in BOOLEAN
        /\ f_ret.value <=>
            /\ f_file.experiment = << "cxid9114" >>
            /\ f_file.common_mode_algo \in
                   { << >>, << "default" >>, << "pppg" >>, << "unbonded" >> }

\* the recognition check accepted a document that names the experiment and
\* leaves the common-mode selector to its default
C1_Witness ==
    /\ f_pc = "understood"
    /\ f_file.experiment = << "cxid9114" >>
    /\ f_file.common_mode_algo = << >>
    /\ f_ret = Returned(TRUE)

\* C2: get_raw_data returns exactly 64 tiles; the tile at position
\* 16q + 2s + a is plane 8q + s of the corrected frame restricted to columns
\* a*FDim .. (a+1)*FDim - 1, and every pixel of the 32 planes is in exactly one
\* tile (the tiles hold as many pixels as the frame, and each frame pixel is
\* found at its place in its tile).
C2_RawDataTiles ==
    (f_pc = "constructed" /\ f_ret.status = "ok" /\ f_ret.value # << >>) =>
        LET tiles == f_ret.value
        IN  /\ Len(tiles) = 64
            /\ f_self.raw_data = tiles
            /\ \A q \in 0..3 : \A sn \in 0..7 : \A a \in 0..1 :
                LET tile == tiles[16 * q + 2 * sn + a + 1]
                IN  /\ DOMAIN tile = 0..(SDim - 1)
                    /\ \A r \in 0..(SDim - 1) :
                        /\ DOMAIN tile[r] = 0..(FDim - 1)
                        /\ \A c \in 0..(FDim - 1) :
                            tile[r][c] = f_data[8 * q + sn][r][a * FDim + c]
            /\ \A i \in 0..31 : \A r \in 0..(SDim - 1) : \A c \in 0..(2 * FDim - 1) :
                f_data[i][r][c] = tiles[2 * i + (c \div FDim) + 1][r][c % FDim]

\* an image has been read and cut: the last tile is the second half of plane 31
C2_Witness ==
    /\ f_pc = "constructed"
    /\ f_ret.status = "ok"
    /\ Len(f_ret.value) = 64
    /\ f_ret.value[64][0][0] = f_data[31][0][FDim]
    /\ f_ret.value[64][0][0] # f_ret.value[1][0][0]
    /\ f_calls # << >>

\* what one pixel of the frame holds after get_raw_data's corrections, given
\* the offset the common-mode step took off it
PixelAfter(raw, i, r, c, offset) ==
    LET v == raw[i][r][c] - Pedestals[i][r][c] - offset
    IN  IF GainMask[i][r][c] THEN v * GainFactor ELSE v

FrameAfter(index, offset) ==
    [i \in 0..(NSensors - 1) |-> [r \in 0..(SDim - 1) |->
        [c \in 0..(SensorCols - 1) |-> PixelAfter(Frame(index), i, r, c, offset)]]]

PedestalSubtracted(index) ==
    [i \in 0..(NSensors - 1) |-> [r \in 0..(SDim - 1) |->
        [c \in 0..(SensorCols - 1) |->
            Frame(index)[i][r][c] - Pedestals[i][r][c]]]]

ImageWasRead == f_pc = "constructed" /\ f_ret.status = "ok" /\ f_ret.value # << >>

\* the selector picks the one routine and its parameters
OneStrategyPerSelector ==
    LET algo == f_self.params.common_mode_algo
    IN  /\ algo = "default" =>
            f_calls = << [fn |-> "common_mode_apply", args |-> <<1, 25, 25, 100, 1>>] >>
        /\ algo = "unbonded" =>
            f_calls = << [fn |-> "common_mode_apply", args |-> <<5, 0, 0, 0, 0>>] >>
        /\ algo = "pppg" =>
            /\ Len(f_calls) = 1
            /\ f_calls[1].fn = "pppg"
            /\ f_calls[1].args = f_self.pppg_args
        /\ algo \notin {"default", "unbonded", "pppg"} => f_calls = << >>

ConfiguredLowPeak(file) ==
    IF file.low_gain_zero_peak = << >> THEN <<-5, 5, 100>>
    ELSE file.low_gain_zero_peak[1]

EV_CONV_FACTOR == 120
low_energy == 20
high_energy == 30
avg_energy == 24

wavelength1 == EV_CONV_FACTOR \div low_energy
wavelength2 == EV_CONV_FACTOR \div high_energy
wavelength3 == EV_CONV_FACTOR \div avg_energy

\* self.beams = [beam1, beam2, beam3]
beams == << [wavelength |-> wavelength1],
            [wavelength |-> wavelength2],
            [wavelength |-> wavelength3] >>

\* The one imageset of the indexer (assert len(imagesets) == 1).
imagesets == << "imageset0" >>

MaxCand == 3

\* params.known_symmetry.unit_cell.parameters(): a, b, c, alpha, beta, gamma.
target_uc == << 100, 100, 200, 90, 90, 90 >>

FILTER_TOL == << 10, 3 >>

\* Unit cells the combinatorial solver can propose: the target itself, an
\* edge 4% off, an edge exactly on the 5% boundary, an edge 8% off, an
\* angle 2 degrees off and an angle exactly 3 degrees off.
CandidateCells ==
    { << 100, 100, 200, 90, 90, 90 >>,
      << 100,  96, 200, 90, 90, 90 >>,
      << 105, 100, 200, 90, 90, 90 >>,
      << 100, 100, 216, 90, 90, 90 >>,
      << 100, 100, 200, 90, 90, 92 >>,
      << 100, 100, 200, 90, 93, 90 >> }

RECURSIVE SeqsUpTo(_, _)
SeqsUpTo(S, n) ==
    IF n = 0 THEN { << >> }
    ELSE LET shorter == SeqsUpTo(S, n - 1)
         IN shorter \cup { Append(q, x) : q \in shorter, x \in S }

\* low < uc[i] < high with tol = 0.01 * FILTER_TOL[0] * target_uc[i],
\* low = target - tol/2, high = target + tol/2; both sides are multiplied
\* by 200 so that the comparison stays in the integers.
edge_in_window(uc, i) ==
    LET tol200 == 2 * FILTER_TOL[1] * target_uc[i]
        low200 == 200 * target_uc[i] - tol200 \div 2
        high200 == 200 * target_uc[i] + tol200 \div 2
    IN low200 < 200 * uc[i] /\ 200 * uc[i] < high200

angle_in_window(uc, i) ==
    LET low == target_uc[i] - FILTER_TOL[2]
        high == target_uc[i] + FILTER_TOL[2]
    IN low < uc[i] /\ uc[i] < high

matrix_is_ok(uc) ==
    /\ \A i \in 1..3 : edge_in_window(uc, i)
    /\ \A i \in 4..6 : angle_in_window(uc, i)

filter_by_mag(candidate_orientation_matrices) ==
    SelectSeq(candidate_orientation_matrices, matrix_is_ok)

\* choose_best_orientation_matrix belongs to the base indexer: it hands
\* back one of the candidates it was given, or None.
best_orientation_choices(candidates) ==
    { << candidates[k] >> : k \in DOMAIN candidates } \cup { << >> }

\* crystal_models = [crystal_model] if crystal_model is not None else []
crystal_models_of(best) == best

Experiment(imageset, beam, crystal) ==
    [imageset |-> imageset, beam |-> beam, crystal |-> crystal]

RECURSIVE imageset_loop(_, _, _)
imageset_loop(k, beam, crystal) ==
    IF k > Len(imagesets) THEN << >>
    ELSE << Experiment(imagesets[k], beam, crystal) >>
         \o imageset_loop(k + 1, beam, crystal)

RECURSIVE beam_loop(_, _)
beam_loop(b, crystal) ==
    IF b > Len(beams) THEN << >>
    ELSE imageset_loop(1, beams[b], crystal) \o beam_loop(b + 1, crystal)

experiment_list_for_crystal(crystal) == beam_loop(1, crystal)

find_lattices_result(crystal_models) ==
    IF Len(crystal_models) # 1 THEN Raised("AssertionError")
    ELSE Returned(experiment_list_for_crystal(crystal_models[1]))

InitLattice ==
    /\ GeomIdle
    /\ FormatIdle
    /\ IndexIdle
    /\ GridIdle
    /\ l_pc = "start"
    /\ l_cands = << >>
    /\ l_good = << >>
    /\ l_models = << >>
    /\ l_ret = ReturnedNone

\* find_lattices: the grid search proposes candidates, the cell filter
\* keeps some, the scorer picks at most one, and the experiment list is
\* built for the one crystal model.
FindLattices ==
    /\ l_pc = "start"
    /\ \E cands \in SeqsUpTo(CandidateCells, MaxCand) :
        LET good_mats == filter_by_mag(cands)
        IN \E best \in best_orientation_choices(good_mats) :
            LET result == find_lattices_result(crystal_models_of(best))
            IN /\ l_cands' = cands
               /\ l_good' = good_mats
               /\ l_models' = crystal_models_of(best)
               /\ l_ret' = result
               /\ l_pc' = IF result.status = "ok" THEN "returned" ELSE "raised"
    /\ UNCHANGED notLatticeVars

NextLattice == FindLattices

SpecLattice == InitLattice /\ [][NextLattice]_vars

\* C7: when the cell filter and the scoring leave no crystal model,
\* find_lattices ends in an outcome of its own that says no lattice was
\* found, not in a generic assertion failure; when exactly one crystal
\* model results, it returns three experiments, for the low-energy, the
\* high-energy and the average beam in that order, sharing that crystal.
C7_FindLatticesOutcome ==
    l_pc \in {"returned", "raised"} =>
        /\ Len(l_models) = 0 => l_ret.status \notin {"ok", "AssertionError"}
        /\ Len(l_models) = 1 =>
            /\ l_ret.status = "ok"
            /\ Len(l_ret.value) = 3
            /\ l_ret.value[1].beam.wavelength = EV_CONV_FACTOR \div low_energy
            /\ l_ret.value[2].beam.wavelength = EV_CONV_FACTOR \div high_energy
            /\ l_ret.value[3].beam.wavelength = EV_CONV_FACTOR \div avg_energy
            /\ \A k \in 1..3 : l_ret.value[k].crystal = l_models[1]

\* ---------------------------------------------------------------------
\* Two-colour indexer: index_reflections_detail
\*
\* The model crystal is cubic with reciprocal cell edge AStar, and the
\* spots lie on one line through the beam centre: a reflection's centroid
\* (xyzobs.px.value) is its distance from the beam centre in pixels, and
\* its reciprocal-lattice vector under a beam is (xyzobs * RlpPerPixel /
\* wavelength, 0, 0), the small-angle form of the pixel-to-reciprocal-
\* space mapping.  Vectors and Miller indices are 3-tuples.
\* ---------------------------------------------------------------------
MaxRefl == 2
MaxGamma == 7

RlpPerPixel == 120
AStar == 100

\* params.index_assignment.simple.hkl_tolerance
tolerance == Rat(2, 10)

low_energy_id == 0
high_energy_id == 1
avg_energy_id == 2

ZeroMiller == << 0, 0, 0 >>

Abs(x) == IF x < 0 THEN -x ELSE x

RatLess(x, y) == x.num * y.den < y.num * x.den

\* flex.vec3_double.norms(), for the axis vectors of the model
norms_of(v) ==
    IF v[2] = 0 /\ v[3] = 0 THEN Abs(v[1])
    ELSE CHOOSE n \in 0..(Abs(v[1]) + Abs(v[2]) + Abs(v[3])) :
            n * n = v[1] * v[1] + v[2] * v[2] + v[3] * v[3]

\* The three experiments index_reflections is given: what find_lattices
\* returns for the one crystal model.
experiments == experiment_list_for_crystal(target_uc)

map_centroids_to_reciprocal_space(xyzobs, beam) ==
    << (xyzobs * RlpPerPixel) \div beam.wavelength, 0, 0 >>

\* self.reciprocal_lattice_points1 / 2: one vector per row of the table
\* (the grid search ran while every row was still unindexed).
reciprocal_lattice_points1(table) ==
    [i \in DOMAIN table |->
        map_centroids_to_reciprocal_space(table[i].xyzobs, beams[1])]

reciprocal_lattice_points2(table) ==
    [i \in DOMAIN table |->
        map_centroids_to_reciprocal_space(table[i].xyzobs, beams[2])]

\* iround: to the nearest integer, halves away from zero
iround(x) ==
    IF x.num >= 0 THEN (2 * x.num + x.den) \div (2 * x.den)
    ELSE -((2 * (-x.num) + x.den) \div (2 * x.den))

\* hkl_float = A_inv * rlp
hkl_float(rlp) == [k \in 1..3 |-> Rat(rlp[k], AStar)]

\* hkl_int = hkl_float.iround()
hkl_int_of(rlp) == [k \in 1..3 |-> iround(hkl_float(rlp)[k])]

\* differences = hkl_float - hkl_int; differences.norms()
differences(rlp) == [k \in 1..3 |-> rlp[k] - hkl_int_of(rlp)[k] * AStar]

residual_norm(rlp) == Rat(norms_of(differences(rlp)), AStar)

\* inside_resolution_limit: 1/|rlp| > d_min, or no cutoff at all
inside_resolution_limit(row, cutoff) ==
    \/ cutoff = << >>
    \/ cutoff[1].num * norms_of(row.rlp) < cutoff[1].den

\* flex.bool.iselection(): the indices of the rows that satisfy Test,
\* in ascending order
RECURSIVE iselection_from(_, _, _)
iselection_from(i, table, cutoff) ==
    IF i > Len(table) THEN << >>
    ELSE (IF inside_resolution_limit(table[i], cutoff) /\ table[i].id = -1
          THEN << i >> ELSE << >>)
         \o iselection_from(i + 1, table, cutoff)

\* Residual ties go to the high-energy lattice in this variant.
i_best_lattice_ties_high(n) ==
    IF RatLess(n[1], n[2]) THEN low_energy_id ELSE high_energy_id

\* norms[0] > norms[1]: high; norms[0] < norms[1]: low; else flex.min_index
i_best_lattice(n) ==
    IF RatLess(n[2], n[1]) THEN high_energy_id
    ELSE IF RatLess(n[1], n[2]) THEN low_energy_id
    ELSE (CHOOSE j \in 1..2 :
            /\ \A k \in 1..2 : ~RatLess(n[k], n[j])
            /\ \A k \in 1..(j - 1) : RatLess(n[j], n[k])) - 1

\* The body of the loop over the selected rows (lines 118-142).
RECURSIVE assign_loop(_, _, _, _)
assign_loop(i_hkl, sel, table, rejects) ==
    IF i_hkl > Len(sel) THEN [reflections |-> table, n_rejects |-> rejects]
    ELSE
        LET i_ref == sel[i_hkl]
            potential_rlps == << reciprocal_lattice_points1(table)[i_ref],
                                 reciprocal_lattice_points2(table)[i_ref] >>
            potential_hkls == << hkl_int_of(potential_rlps[1]),
                                 hkl_int_of(potential_rlps[2]) >>
            n == << residual_norm(potential_rlps[1]),
                    residual_norm(potential_rlps[2]) >>
            best == i_best_lattice(n)
        IN IF RatLess(tolerance, n[best + 1])
           THEN assign_loop(i_hkl + 1, sel, table, rejects + 1)
           ELSE assign_loop(i_hkl + 1, sel,
                    [table EXCEPT ![i_ref] =
                        [@ EXCEPT !.miller_index = potential_hkls[best + 1],
                                  !.id = best,
                                  !.rlp = potential_rlps[best + 1]]],
                    rejects)

\* The variant that leaves the Miller indices as they came in.
reset_miller_index_skipped(table) == table

\* reflections['miller_index'] = flex.miller_index(len(reflections), (0,0,0))
reset_miller_index(table) ==
    [i \in DOMAIN table |-> [table[i] EXCEPT !.miller_index = ZeroMiller]]

\* Rows on entry.  A row that comes in unindexed has id -1; a row indexed
\* by an earlier call has id 1 and the Miller index that call gave it.
\* The rlp column holds the vector under the imageset's own beam, here
\* the average wavelength.
EntryIds == { -1, high_energy_id }

EntryRow(xyzobs, id) ==
    [id |-> id,
     miller_index |->
        IF id = -1 THEN ZeroMiller
        ELSE hkl_int_of(map_centroids_to_reciprocal_space(xyzobs, beams[id + 1])),
     rlp |-> map_centroids_to_reciprocal_space(xyzobs, beams[3]),
     xyzobs |-> xyzobs,
     indexed |-> FALSE]

EntryRows == { EntryRow(x, id) : x \in 1..MaxGamma, id \in EntryIds }

\* d_min: no cutoff, or a cutoff that a spot 5 pixels out sits exactly on
DMinChoices == { << >>, << Rat(1, 120) >> }

InitIndex ==
    /\ GeomIdle
    /\ FormatIdle
    /\ LatticeIdle
    /\ GridIdle
    /\ i_pc = "entry"
    /\ reflections \in SeqsUpTo(EntryRows, MaxRefl)
    /\ d_min \in DMinChoices
    /\ isel = << >>
    /\ n_rejects = 0
    /\ shoebox = << >>
    /\ variance = << >>
    /\ refined_experiments = << >>
    /\ refined_reflections = << >>
    /\ i_ret = ReturnedNone

\* index_reflections_detail, lines 62-142: reset the Miller indices,
\* select the unindexed rows inside the cutoff, assign each to a lattice.
AssignMillerIndices ==
    /\ i_pc = "entry"
    /\ Len(experiments) = 3
    /\ LET cleared == reset_miller_index(reflections)
           sel == iselection_from(1, cleared, d_min)
           out == assign_loop(1, sel, cleared, 0)
       IN /\ isel' = sel
          /\ reflections' = out.reflections
          /\ n_rejects' = out.n_rejects
    /\ i_pc' = "assigned"
    /\ UNCHANGED <<d_min, shoebox, variance, refined_experiments,
                   refined_reflections, i_ret>>
    /\ UNCHANGED notIndexVars


\* miller_indices = reflections['miller_index'].select(isel)
miller_indices_of(table, sel) ==
    [k \in DOMAIN sel |-> table[sel[k]].miller_index]

\* rlp_norms = reflections['rlp'].select(isel).norms()
rlp_norms_of(table, sel) ==
    [k \in DOMAIN sel |-> norms_of(table[sel[k]].rlp)]

\* (miller_indices == hkl).iselection()
RECURSIVE same_hkl_from(_, _, _)
same_hkl_from(k, miller_indices, hkl) ==
    IF k > Len(miller_indices) THEN << >>
    ELSE (IF miller_indices[k] = hkl THEN << k >> ELSE << >>)
         \o same_hkl_from(k + 1, miller_indices, hkl)

\* for i in iselection: for j in iselection: if j <= i: continue
RECURSIVE pair_loop(_, _, _)
pair_loop(iselection, a, b) ==
    IF a > Len(iselection) THEN << >>
    ELSE IF b > Len(iselection) THEN pair_loop(iselection, a + 1, 1)
    ELSE (IF iselection[b] <= iselection[a] THEN << >>
          ELSE << << iselection[a], iselection[b] >> >>)
         \o pair_loop(iselection, a, b + 1)

\* The pairs (i, j) the two duplicate passes visit, in the order they
\* visit them: for every selected row with a non-zero Miller index, every
\* pair of the rows that share that Miller index.
RECURSIVE duplicate_pairs(_, _)
duplicate_pairs(i_hkl, miller_indices) ==
    IF i_hkl > Len(miller_indices) THEN << >>
    ELSE LET hkl == miller_indices[i_hkl]
             iselection == same_hkl_from(1, miller_indices, hkl)
         IN (IF hkl = ZeroMiller \/ Len(iselection) <= 1 THEN << >>
             ELSE pair_loop(iselection, 1, 1))
            \o duplicate_pairs(i_hkl + 1, miller_indices)

\* hkl_ints[crystal][k]: the rounded Miller index of selected row k under
\* the beam of experiment `crystal`
hkl_ints(crystal, k, table, sel) ==
    hkl_int_of(map_centroids_to_reciprocal_space(table[sel[k]].xyzobs,
                                                 beams[crystal + 1]))

set_id(table, i_ref, id) == [table EXCEPT ![i_ref].id = id]

\* The body of the same-id duplicate pass (lines 153-172).
RECURSIVE same_id_loop(_, _, _, _, _)
same_id_loop(pairs, p, sel, rlp_norms, table) ==
    IF p > Len(pairs) THEN [status |-> "ok", value |-> table]
    ELSE
        LET i == pairs[p][1]
            j == pairs[p][2]
            crystal_i == table[sel[i]].id
            crystal_j == table[sel[j]].id
        IN IF crystal_i # crystal_j
           THEN same_id_loop(pairs, p + 1, sel, rlp_norms, table)
           ELSE IF (crystal_i = -1 \/ crystal_j = -1)
                    \/ (crystal_i = -2 \/ crystal_j = -2)
           THEN same_id_loop(pairs, p + 1, sel, rlp_norms, table)
           ELSE IF crystal_i = 2 \/ crystal_j = 2
           THEN same_id_loop(pairs, p + 1, sel, rlp_norms, table)
           ELSE IF hkl_ints(crystal_j, j, table, sel)
                    # hkl_ints(crystal_i, i, table, sel)
           THEN [status |-> "AssertionError", value |-> table]
           ELSE IF rlp_norms[i] < rlp_norms[j]
           THEN same_id_loop(pairs, p + 1, sel, rlp_norms,
                    set_id(set_id(table, sel[i], high_energy_id),
                           sel[j], low_energy_id))
           ELSE IF rlp_norms[j] < rlp_norms[i]
           THEN same_id_loop(pairs, p + 1, sel, rlp_norms,
                    set_id(set_id(table, sel[j], high_energy_id),
                           sel[i], low_energy_id))
           ELSE same_id_loop(pairs, p + 1, sel, rlp_norms, table)

\* index_reflections_detail, lines 144-172: among rows that share a
\* non-zero Miller index and an id, use the rlp magnitudes to tell the
\* two lattices apart.  The assertion on line 165 ends the call.
ResolveSameId ==
    /\ i_pc = "assigned"
    /\ LET miller_indices == miller_indices_of(reflections, isel)
           rlp_norms == rlp_norms_of(reflections, isel)
           out == same_id_loop(duplicate_pairs(1, miller_indices), 1,
                               isel, rlp_norms, reflections)
       IN /\ reflections' = out.value
          /\ i_pc' = IF out.status = "ok" THEN "deduped" ELSE "raised"
          /\ i_ret' = IF out.status = "ok" THEN i_ret ELSE Raised(out.status)
    /\ UNCHANGED <<d_min, isel, n_rejects, shoebox, variance,
                   refined_experiments, refined_reflections>>
    /\ UNCHANGED notIndexVars


\* dials MaskCode bits
MaskValid == 1
MaskBackground == 2
MaskForeground == 4

\* valid = MaskCode.Valid | MaskCode.Foreground
valid == MaskValid + MaskForeground

\* Shoeboxes one pixel row high around a centroid: bbox is (x1, x2, y1,
\* y2, z1, z2) and mask maps x - x1 to a mask code.  The compact one is
\* foreground out to 1 pixel; the broad one is foreground out to 2 pixels
\* with a background pixel beyond on each side.
compact_shoebox(centroid) ==
    [bbox |-> << centroid - 1, centroid + 2, 0, 1, 0, 1 >>,
     mask |-> [dx \in 0..2 |-> valid]]

broad_shoebox(centroid) ==
    [bbox |-> << centroid - 3, centroid + 4, 0, 1, 0, 1 >>,
     mask |-> [dx \in 0..6 |->
                IF dx = 0 \/ dx = 6 THEN MaskValid + MaskBackground
                ELSE valid]]

\* The rows whose shoebox the overlap pass reads.
reads_shoebox(table, sel, i_ref) ==
    /\ \E k \in DOMAIN sel : sel[k] = i_ref
    /\ table[i_ref].miller_index # ZeroMiller

ShoeboxColumns(table, sel) ==
    { col \in [DOMAIN table -> { "compact", "broad" }] :
        \A i \in DOMAIN table :
            ~reads_shoebox(table, sel, i) => col[i] = "compact" }

shoebox_column(col, table) ==
    [i \in DOMAIN table |->
        IF col[i] = "compact" THEN compact_shoebox(table[i].xyzobs)
        ELSE broad_shoebox(table[i].xyzobs)]

\* The loop over the pixels of the shoebox (lines 203-211): the distance
\* from the centroid to the farthest valid foreground pixel.
RECURSIVE longest_loop(_, _, _, _)
longest_loop(x, sb, centroid, longest) ==
    IF x >= sb.bbox[2] THEN longest
    ELSE IF sb.mask[x - sb.bbox[1]] # valid
    THEN longest_loop(x + 1, sb, centroid, longest)
    ELSE LET dist == Abs(centroid - x)
         IN longest_loop(x + 1, sb, centroid,
                         IF dist > longest THEN dist ELSE longest)

RatSub(x, y) == Rat(x.num * y.den - y.num * x.den, x.den * y.den)

\* detector[0].get_resolution_at_pixel(s0, (px_x, px_y)) with the s0 of
\* experiments[2]: the d-spacing of the pixel under the average beam
resolution_at_pixel(xyzobs) ==
    Rat(1, norms_of(map_centroids_to_reciprocal_space(xyzobs,
                                                      experiments[3].beam)))

\* math.tan(2 * math.asin(lambda / (2 * res))) * det_dist / px_size_mm,
\* in the small-angle form lambda / res * det_dist / px_size_mm
tan_2theta_px(lambda, res) == Rat(lambda * res.den, res.num * RlpPerPixel)

\* the predicted distance in pixels between the low-energy and the
\* high-energy spot of one d-spacing
px_dist(xyzobs) ==
    LET lambda_0 == experiments[1].beam.wavelength
        lambda_1 == experiments[2].beam.wavelength
        res == resolution_at_pixel(xyzobs)
    IN RatSub(tan_2theta_px(lambda_0, res), tan_2theta_px(lambda_1, res))

\* The variant that changes the id and leaves the rlp as it is.
to_avg_energy_unscaled(row) == [row EXCEPT !.id = avg_energy_id]

\* lines 214-218: move a row to the average-energy experiment
to_avg_energy(row) ==
    LET scale_num == experiments[row.id + 1].beam.wavelength
        scale_den == experiments[3].beam.wavelength
    IN [row EXCEPT !.rlp = [k \in 1..3 |-> (row.rlp[k] * scale_num) \div scale_den],
                   !.id = avg_energy_id]

\* The body of the overlap loop (lines 195-218).
RECURSIVE overlap_loop(_, _, _, _)
overlap_loop(i, sel, boxes, table) ==
    IF i > Len(sel) THEN table
    ELSE IF table[sel[i]].miller_index = ZeroMiller
    THEN overlap_loop(i + 1, sel, boxes, table)
    ELSE LET sb == boxes[sel[i]]
             centroid == table[sel[i]].xyzobs
             longest == longest_loop(sb.bbox[1], sb, centroid, 0)
         IN IF RatLess(px_dist(table[sel[i]].xyzobs), Rat(2 * longest, 1))
            THEN overlap_loop(i + 1, sel, boxes,
                     [table EXCEPT ![sel[i]] = to_avg_energy(@)])
            ELSE overlap_loop(i + 1, sel, boxes, table)

\* index_reflections_detail, lines 174-218: a spot wider than the
\* distance between its two colours goes to experiment 2.
DetectOverlap ==
    /\ i_pc = "deduped"
    /\ \E col \in ShoeboxColumns(reflections, isel) :
        LET boxes == shoebox_column(col, reflections)
        IN /\ shoebox' = boxes
           /\ reflections' = overlap_loop(1, isel, boxes, reflections)
    /\ i_pc' = "overlapped"
    /\ UNCHANGED <<d_min, isel, n_rejects, variance, refined_experiments,
                   refined_reflections, i_ret>>
    /\ UNCHANGED notIndexVars

\* Centroid variances (x, y, z); tuples compare lexicographically.
Variances == { << 1, 1, 0 >>, << 1, 2, 0 >> }

\* The variant with the comparison turned round.
TupleGreater(a, b) ==
    \E k \in 1..3 : a[k] > b[k] /\ \A m \in 1..(k - 1) : a[m] = b[m]

TupleLess(a, b) ==
    \E k \in 1..3 : a[k] < b[k] /\ \A m \in 1..(k - 1) : a[m] = b[m]

\* The rows whose variance the reconciliation pass can read: those that
\* sit in a duplicate pair.
reads_variance(pairs, sel, i_ref) ==
    \E p \in DOMAIN pairs : sel[pairs[p][1]] = i_ref \/ sel[pairs[p][2]] = i_ref

VarianceColumns(table, sel, pairs) ==
    { col \in [DOMAIN table -> Variances] :
        \A i \in DOMAIN table :
            ~reads_variance(pairs, sel, i) => col[i] = << 1, 1, 0 >> }

\* The body of the reconciliation pass (lines 226-248).
reconcile_first(table, i_ref, j_ref, crystal_i, crystal_j, var) ==
    IF (crystal_i = 2 \/ crystal_j = 2) /\ TupleLess(var[i_ref], var[j_ref])
    THEN set_id(set_id(table, j_ref, -2), i_ref, avg_energy_id)
    ELSE IF (crystal_i = 2 \/ crystal_j = 2) /\ TupleLess(var[j_ref], var[i_ref])
    THEN set_id(set_id(table, i_ref, -2), j_ref, avg_energy_id)
    ELSE table

reconcile_second(table, i_ref, j_ref, crystal_i, crystal_j, var) ==
    IF (crystal_i = 2 /\ crystal_j = 2) /\ TupleLess(var[i_ref], var[j_ref])
    THEN set_id(set_id(table, j_ref, -2), i_ref, avg_energy_id)
    ELSE IF (crystal_i = 2 /\ crystal_j = 2) /\ TupleLess(var[j_ref], var[i_ref])
    THEN set_id(set_id(table, i_ref, -2), j_ref, avg_energy_id)
    ELSE table

RECURSIVE reconcile_loop(_, _, _, _, _)
reconcile_loop(pairs, p, sel, var, table) ==
    IF p > Len(pairs) THEN table
    ELSE
        LET i_ref == sel[pairs[p][1]]
            j_ref == sel[pairs[p][2]]
            crystal_i == table[i_ref].id
            crystal_j == table[j_ref].id
        IN IF (crystal_i = -1 \/ crystal_j = -1)
                \/ (crystal_i = -2 \/ crystal_j = -2)
           THEN reconcile_loop(pairs, p + 1, sel, var, table)
           ELSE IF (crystal_i = 1 /\ crystal_j = 0)
                    \/ (crystal_i = 0 /\ crystal_j = 1)
           THEN reconcile_loop(pairs, p + 1, sel, var, table)
           ELSE reconcile_loop(pairs, p + 1, sel, var,
                    reconcile_second(
                        reconcile_first(table, i_ref, j_ref,
                                        crystal_i, crystal_j, var),
                        i_ref, j_ref, crystal_i, crystal_j, var))

\* index_reflections_detail, lines 220-256: of two rows with one Miller
\* index, one of them in experiment 2, one stays in experiment 2 and the
\* other is rejected with id -2.
ReconcileOverlap ==
    /\ i_pc = "overlapped"
    /\ LET pairs == duplicate_pairs(1, miller_indices_of(reflections, isel))
       IN \E var \in VarianceColumns(reflections, isel, pairs) :
            /\ variance' = var
            /\ reflections' = reconcile_loop(pairs, 1, isel, var, reflections)
    /\ shoebox' = << >>
    /\ i_pc' = "detail_done"
    /\ UNCHANGED <<d_min, isel, n_rejects, refined_experiments,
                   refined_reflections, i_ret>>
    /\ UNCHANGED notIndexVars


\* The variant without the fallback to id 0.
flag_without_fallback(table) ==
    [i \in DOMAIN table |->
        [table[i] EXCEPT !.indexed = @ \/ table[i].miller_index # ZeroMiller]]

\* index_reflections, lines 315-321: rows still at id -1 go to id 0, and
\* rows with a non-zero Miller index get the indexed flag.
fallback_and_flag(table) ==
    [i \in DOMAIN table |->
        [table[i] EXCEPT
            !.id = IF @ = -1 THEN 0 ELSE @,
            !.indexed = @ \/ table[i].miller_index # ZeroMiller]]

\* index_reflections (lines 294-321) after index_reflections_detail has
\* returned.
FinishIndexReflections ==
    /\ i_pc = "detail_done"
    /\ Len(experiments) > 1
    /\ Len(imagesets) = 1
    /\ reflections' = fallback_and_flag(reflections)
    /\ variance' = << >>
    /\ i_pc' = "indexed"
    /\ UNCHANGED <<d_min, isel, n_rejects, shoebox, refined_experiments,
                   refined_reflections, i_ret>>
    /\ UNCHANGED notIndexVars

\* The rest of the base indexer's index(): refinement leaves some number
\* of the experiments in self.refined_experiments and the table in
\* self.refined_reflections.
RefineInBaseIndexer ==
    /\ i_pc = "indexed"
    /\ \E n \in 0..Len(experiments) :
        refined_experiments' = SubSeq(experiments, 1, n)
    /\ refined_reflections' = reflections
    /\ i_pc' = "refined"
    /\ UNCHANGED <<reflections, d_min, isel, n_rejects, shoebox, variance,
                   i_ret>>
    /\ UNCHANGED notIndexVars

\* The variant that leaves the overlap rows out.
RECURSIVE e_indexed_without_overlaps(_, _, _)
e_indexed_without_overlaps(k, table, e_number) ==
    IF k > Len(table) THEN << >>
    ELSE (IF table[k].id = e_number
          THEN << [table[k] EXCEPT !.id = e_number] >> ELSE << >>)
         \o e_indexed_without_overlaps(k + 1, table, e_number)

\* e_indexed = refined_reflections.select(id == e_number or id == 2),
\* renumbered to e_number
RECURSIVE e_indexed_from(_, _, _)
e_indexed_from(k, table, e_number) ==
    IF k > Len(table) THEN << >>
    ELSE (IF table[k].id = e_number \/ table[k].id = 2
          THEN << [table[k] EXCEPT !.id = e_number] >> ELSE << >>)
         \o e_indexed_from(k + 1, table, e_number)

\* The loop of index() (lines 284-290); e_number counts from 0.
RECURSIVE consolidate_loop(_, _, _)
consolidate_loop(e_number, exps, table) ==
    IF e_number >= Len(exps)
    THEN [experiments2 |-> << >>, indexed2 |-> << >>]
    ELSE LET rest == IF e_number >= 1
                     THEN [experiments2 |-> << >>, indexed2 |-> << >>]
                     ELSE consolidate_loop(e_number + 1, exps, table)
         IN [experiments2 |-> << exps[e_number + 1] >> \o rest.experiments2,
             indexed2 |-> e_indexed_from(1, table, e_number) \o rest.indexed2]

\* index(), lines 282-292: keep the first two refined experiments and the
\* rows that belong to them.
Consolidate ==
    /\ i_pc = "refined"
    /\ LET out == consolidate_loop(0, refined_experiments, refined_reflections)
       IN /\ refined_experiments' = out.experiments2
          /\ refined_reflections' = out.indexed2
    /\ i_pc' = "done"
    /\ UNCHANGED <<reflections, d_min, isel, n_rejects, shoebox, variance,
                   i_ret>>
    /\ UNCHANGED notIndexVars

NextIndex ==
    \/ AssignMillerIndices
    \/ ResolveSameId
    \/ DetectOverlap
    \/ ReconcileOverlap
    \/ FinishIndexReflections
    \/ RefineInBaseIndexer
    \/ Consolidate

SpecIndex == InitIndex /\ [][NextIndex]_vars


\* ---------------------------------------------------------------------
\* Properties of the indexer
\* ---------------------------------------------------------------------
InIsel(i) == \E k \in DOMAIN isel : isel[k] = i

\* the x component of a spot's reciprocal-lattice vector at a wavelength
RlpAt(xyzobs, wavelength) == (xyzobs * RlpPerPixel) \div wavelength

\* the lattice points nearest to r along the axis, and r's distance to them
NearestIndices(r) ==
    LET candidates == 0..(r \div AStar + 1)
    IN { h \in candidates :
            \A g \in candidates : Abs(r - h * AStar) <= Abs(r - g * AStar) }

LatticeDist(r) == LET h == CHOOSE g \in NearestIndices(r) : TRUE
                  IN Abs(r - h * AStar)

ResidualLow(row) == LatticeDist(RlpAt(row.xyzobs, EV_CONV_FACTOR \div low_energy))

ResidualHigh(row) == LatticeDist(RlpAt(row.xyzobs, EV_CONV_FACTOR \div high_energy))

Winner(row) == IF ResidualLow(row) <= ResidualHigh(row) THEN 0 ELSE 1

WinnerRlp(row) ==
    IF Winner(row) = 0 THEN RlpAt(row.xyzobs, EV_CONV_FACTOR \div low_energy)
    ELSE RlpAt(row.xyzobs, EV_CONV_FACTOR \div high_energy)

ExceedsTolerance(row) ==
    LatticeDist(WinnerRlp(row)) * tolerance.den > tolerance.num * AStar

InsideCutoff(row) ==
    d_min = << >> \/ d_min[1].num * Abs(row.rlp[1]) < d_min[1].den

\* C3: in the assignment step every reflection that comes in with id -1
\* inside the resolution cutoff goes to the wavelength with the smaller
\* residual (0 = low, 1 = high), ties to the lower id, and takes the
\* Miller index nearest to it at that wavelength; if the winning residual
\* exceeds the tolerance it keeps id -1 and Miller index (0,0,0), and the
\* reject counter goes up by one for each such reflection.
C3_AssignmentStep ==
    [][(i_pc = "entry" /\ i_pc' = "assigned") =>
        /\ \A i \in DOMAIN reflections :
            (reflections[i].id = -1 /\ InsideCutoff(reflections[i])) =>
                IF ExceedsTolerance(reflections[i])
                THEN /\ reflections'[i].id = -1
                     /\ reflections'[i].miller_index = ZeroMiller
                ELSE /\ reflections'[i].id = Winner(reflections[i])
                     /\ reflections'[i].miller_index[1]
                            \in NearestIndices(WinnerRlp(reflections[i]))
                     /\ reflections'[i].miller_index[2] = 0
                     /\ reflections'[i].miller_index[3] = 0
        /\ n_rejects' = n_rejects + Cardinality(
                { i \in DOMAIN reflections :
                    /\ reflections[i].id = -1
                    /\ InsideCutoff(reflections[i])
                    /\ ExceedsTolerance(reflections[i]) })]_vars

\* One selected reflection was rejected and another, with equal residuals
\* at both wavelengths, went to id 0.
C3_Witness ==
    /\ i_pc = "assigned"
    /\ n_rejects = 1
    /\ \E i \in DOMAIN reflections :
        /\ InIsel(i)
        /\ ResidualLow(reflections[i]) = ResidualHigh(reflections[i])
        /\ reflections[i].id = 0
        /\ reflections[i].miller_index # ZeroMiller

\* the Miller index the assignment step leaves a row with
AssignedMiller(i) ==
    IF InIsel(i) /\ ~ExceedsTolerance(reflections[i])
    THEN hkl_int_of(<< WinnerRlp(reflections[i]), 0, 0 >>)
    ELSE ZeroMiller

AfterAssignment == { "assigned", "deduped", "overlapped", "detail_done" }

\* C4 as stated: at the end of index_reflections_detail a reflection's
\* Miller index is (0,0,0) if and only if its id is -1.
C4_ZeroMillerIffUnassigned ==
    i_pc = "detail_done" =>
        \A i \in DOMAIN reflections :
            (reflections[i].miller_index = ZeroMiller) <=> (reflections[i].id = -1)

\* C4, amended: at the end of index_reflections_detail every reflection
\* with id -1 has Miller index (0,0,0) and every reflection with a
\* non-zero Miller index has an id among 0, 1, 2, -2; from the assignment
\* step on, no pass changes a Miller index.
C4_UnassignedHasZeroMiller ==
    /\ i_pc \in AfterAssignment =>
        \A i \in DOMAIN reflections :
            reflections[i].miller_index = AssignedMiller(i)
    /\ i_pc = "detail_done" =>
        \A i \in DOMAIN reflections :
            /\ reflections[i].id = -1 => reflections[i].miller_index = ZeroMiller
            /\ reflections[i].miller_index # ZeroMiller =>
                    reflections[i].id \in {0, 1, 2, -2}

\* The later passes have moved two reflections with a non-zero Miller
\* index: one to id 2, one to id -2.
C4_Witness ==
    /\ i_pc = "detail_done"
    /\ \E i, j \in DOMAIN reflections :
        /\ reflections[i].miller_index # ZeroMiller
        /\ reflections[j].miller_index # ZeroMiller
        /\ reflections[i].id = 2
        /\ reflections[j].id = -2

\* C5 as stated: after index_reflections every id is 0, 1 or 2.
C5_AllIdsAssigned ==
    i_pc = "indexed" =>
        \A i \in DOMAIN reflections : reflections[i].id \in {0, 1, 2}

\* C5, amended: after index_reflections no reflection has id -1: a
\* selected reflection that was rejected has been forced to id 0, and
\* every selected reflection has an id among 0, 1, 2 and -2, where -2
\* marks the loser of a duplicate pair that has a member in experiment 2;
\* a reflection that was not selected is at id 0 or at the id it came
\* in with.
C5_NoneLeftUnassigned ==
    i_pc = "indexed" =>
        \A i \in DOMAIN reflections :
            /\ reflections[i].id # -1
            /\ InIsel(i) => reflections[i].id \in {0, 1, 2, -2}
            /\ ~InIsel(i) => reflections[i].id \in {0} \cup (EntryIds \ {-1})
            /\ (InIsel(i) /\ ExceedsTolerance(reflections[i])) =>
                    reflections[i].id = 0
            /\ reflections[i].id = -2 =>
                    \E j \in DOMAIN reflections :
                        /\ j # i
                        /\ reflections[j].miller_index = reflections[i].miller_index
                        /\ reflections[j].id = 2

\* index_reflections has finished with a rejected duplicate still in the
\* table.
C5_Witness ==
    /\ i_pc = "indexed"
    /\ \E i \in DOMAIN reflections : reflections[i].id = -2

\* the rows of table whose id is e or 2, relabelled to e
Relabelled(table, e) ==
    LET mine(row) == row.id = e \/ row.id = 2
        picked == SelectSeq(table, mine)
    IN [k \in DOMAIN picked |-> [picked[k] EXCEPT !.id = e]]

\* C6: consolidation in index() keeps min(n, 2) of the n refined
\* experiments, numbered from 0; the output table holds, for each kept
\* experiment e, exactly the refined reflections whose id was e or 2,
\* relabelled to e, so that every output id is 0 or 1, an id-2 reflection
\* appears once under each kept experiment, and every other id is dropped.
C6_Consolidation ==
    [][(i_pc = "refined" /\ i_pc' = "done") =>
        LET n == Len(refined_experiments)
            kept == Min(n, 2)
        IN /\ Len(refined_experiments') = kept
           /\ \A e \in 1..kept : refined_experiments'[e] = refined_experiments[e]
           /\ refined_reflections' =
                IF kept = 0 THEN << >>
                ELSE IF kept = 1 THEN Relabelled(refined_reflections, 0)
                ELSE Relabelled(refined_reflections, 0)
                     \o Relabelled(refined_reflections, 1)
           /\ \A k \in DOMAIN refined_reflections' :
                refined_reflections'[k].id \in {0, 1}]_vars

\* Two experiments were kept, an overlap reflection came out under both,
\* and a rejected duplicate was dropped.
C6_Witness ==
    /\ i_pc = "done"
    /\ Len(refined_experiments) = 2
    /\ \E i \in DOMAIN reflections : reflections[i].id = -2
    /\ \E a, b \in DOMAIN refined_reflections :
        /\ refined_reflections[a].id = 0
        /\ refined_reflections[b].id = 1
        /\ refined_reflections[b] = [refined_reflections[a] EXCEPT !.id = 1]
    /\ Len(refined_reflections) = 2


\* two different rows that the assignment step left with one non-zero
\* Miller index and one id among 0 and 1
SameIdDuplicates(i, j) ==
    /\ i # j
    /\ InIsel(i)
    /\ InIsel(j)
    /\ reflections[i].miller_index # ZeroMiller
    /\ reflections[i].miller_index = reflections[j].miller_index
    /\ reflections[i].id \in {0, 1}
    /\ reflections[i].id = reflections[j].id

\* C12: in the same-id duplicate pass, of two reflections that the
\* assignment step gave one non-zero Miller index and one id (0 or 1), the
\* one with the smaller rlp magnitude still has that id after the pass and
\* the other has the opposite id.
C12_ShorterKeepsItsId ==
    [][(i_pc = "assigned" /\ i_pc' = "deduped") =>
        \A i, j \in DOMAIN reflections :
            (/\ SameIdDuplicates(i, j)
             /\ norms_of(reflections[i].rlp) < norms_of(reflections[j].rlp)) =>
                /\ reflections'[i].id = reflections[i].id
                /\ reflections'[j].id = 1 - reflections[j].id]_vars


\* the spot radius: the distance from the centroid to the farthest pixel of
\* the shoebox that is valid foreground (0 if there is none)
SpotRadius(sb, centroid) ==
    LET reach == { Abs(centroid - x) : x \in
                    { x \in sb.bbox[1]..(sb.bbox[2] - 1) :
                        sb.mask[x - sb.bbox[1]] = MaskValid + MaskForeground } }
    IN IF reach = { } THEN 0
       ELSE CHOOSE d \in reach : \A e \in reach : e <= d

\* twice the radius exceeds the distance between the low-energy and the
\* high-energy spot of the row's d-spacing, xyzobs * (w1 - w2) / w3
WiderThanSeparation(sb, row) ==
    2 * SpotRadius(sb, row.xyzobs) * wavelength3
        > row.xyzobs * (wavelength1 - wavelength2)

WavelengthOfId(id) == IF id = 0 THEN wavelength1 ELSE wavelength2

\* C13: in the overlap pass every selected reflection with a non-zero
\* Miller index whose doubled spot radius exceeds the predicted low/high
\* pixel separation ends at id 2 with its rlp scaled by the wavelength of
\* its previous id over the average wavelength; every other reflection
\* keeps its id and rlp, and a reflection with Miller index (0,0,0) is
\* never moved to id 2.
C13_OverlapDetection ==
    [][(i_pc = "deduped" /\ i_pc' = "overlapped") =>
        \A i \in DOMAIN reflections :
            IF /\ InIsel(i)
               /\ reflections[i].miller_index # ZeroMiller
               /\ WiderThanSeparation(shoebox'[i], reflections[i])
            THEN /\ reflections'[i].id = 2
                 /\ \A k \in 1..3 :
                        reflections'[i].rlp[k] * wavelength3
                            = reflections[i].rlp[k] * WavelengthOfId(reflections[i].id)
            ELSE /\ reflections'[i].id = reflections[i].id
                 /\ reflections'[i].rlp = reflections[i].rlp
                 /\ reflections[i].miller_index = ZeroMiller => reflections'[i].id # 2]_vars

\* The pass moved a wide spot to id 2 and left a narrow spot, also with a
\* non-zero Miller index, where it was.
C13_Witness ==
    /\ i_pc = "overlapped"
    /\ \E i, j \in DOMAIN reflections :
        /\ InIsel(i)
        /\ InIsel(j)
        /\ reflections[i].id = 2
        /\ WiderThanSeparation(shoebox[i], reflections[i])
        /\ reflections[j].miller_index # ZeroMiller
        /\ reflections[j].id \in {0, 1}
        /\ ~WiderThanSeparation(shoebox[j], reflections[j])


\* two different selected rows with one non-zero Miller index
Duplicates(i, j) ==
    /\ i # j
    /\ InIsel(i)
    /\ InIsel(j)
    /\ reflections[i].miller_index # ZeroMiller
    /\ reflections[i].miller_index = reflections[j].miller_index

\* a duplicate pair with a member in experiment 2 and no rejected or
\* unassigned member
OverlapDuplicates(i, j) ==
    /\ Duplicates(i, j)
    /\ reflections[i].id = 2 \/ reflections[j].id = 2
    /\ reflections[i].id \notin {-1, -2}
    /\ reflections[j].id \notin {-1, -2}

\* no third selected row has the pair's Miller index
AloneInGroup(i, j) ==
    \A k \in DOMAIN reflections : Duplicates(i, k) => k = j

\* (vx, vy, vz) before (wx, wy, wz) in the order of tuples
VarianceBelow(v, w) ==
    \/ v[1] < w[1]
    \/ v[1] = w[1] /\ v[2] < w[2]
    \/ v[1] = w[1] /\ v[2] = w[2] /\ v[3] < w[3]

\* C14 as stated: of a duplicate pair with a member at id 2 (neither at -1
\* or -2) the member with the larger variance ends at id 2 and the other
\* at -2; pairs whose ids are 0 and 1 are left untouched.
C14_LargerVarianceKept ==
    [][(i_pc = "overlapped" /\ i_pc' = "detail_done") =>
        \A i, j \in DOMAIN reflections :
            /\ (OverlapDuplicates(i, j) /\ VarianceBelow(variance'[i], variance'[j])) =>
                    /\ reflections'[j].id = 2
                    /\ reflections'[i].id = -2
            /\ (Duplicates(i, j) /\ reflections[i].id = 0 /\ reflections[j].id = 1
                    /\ AloneInGroup(i, j)) =>
                    /\ reflections'[i].id = 0
                    /\ reflections'[j].id = 1]_vars

\* C14, amended: of a duplicate pair with a member at id 2 (neither at -1
\* or -2) that alone shares its Miller index, the member with the smaller
\* variance ends at id 2 and the member with the larger variance at -2,
\* and with equal variances both keep their ids; a pair whose ids are 0
\* and 1 is left untouched; and in a group of any size a reflection is
\* moved to -2 only if another member of the group has a smaller variance.
C14_SmallerVarianceKept ==
    [][(i_pc = "overlapped" /\ i_pc' = "detail_done") =>
        \A i, j \in DOMAIN reflections :
            /\ (OverlapDuplicates(i, j) /\ AloneInGroup(i, j)) =>
                    IF VarianceBelow(variance'[i], variance'[j])
                    THEN reflections'[i].id = 2 /\ reflections'[j].id = -2
                    ELSE IF VarianceBelow(variance'[j], variance'[i])
                    THEN reflections'[j].id = 2 /\ reflections'[i].id = -2
                    ELSE /\ reflections'[i].id = reflections[i].id
                         /\ reflections'[j].id = reflections[j].id
            /\ (Duplicates(i, j) /\ reflections[i].id = 0 /\ reflections[j].id = 1
                    /\ AloneInGroup(i, j)) =>
                    /\ reflections'[i].id = 0
                    /\ reflections'[j].id = 1
            /\ (reflections'[i].id = -2 /\ reflections[i].id # -2) =>
                    \E k \in DOMAIN reflections :
                        /\ Duplicates(i, k)
                        /\ VarianceBelow(variance'[k], variance'[i])]_vars

\* The pass has rejected the member of a pair with the larger variance and
\* kept the other at id 2.
C14_Witness ==
    /\ i_pc = "detail_done"
    /\ \E i, j \in DOMAIN reflections :
        /\ Duplicates(i, j)
        /\ reflections[i].id = 2
        /\ reflections[j].id = -2
        /\ VarianceBelow(variance[i], variance[j])


(***************************************************************************)
(* Grid search: the greedy selection of unique basis vectors               *)
(***************************************************************************)
\* Longest candidate list drawn.
MaxVectors == 3

\* Number of basis vectors kept; the source keeps 60, the model a number
\* that lists of MaxVectors candidates can reach and can fall short of.
N_UNIQUE_V == 2

\* A vector of the search is its direction, an angle of a plane in degrees,
\* and its length.
Directions == {0, 2, 90}

Lengths == {5, 7, 10}

SearchVectors == [angle : Directions, length : Lengths]

angle_between(vec_a, vec_b) == Abs(vec_a.angle - vec_b.angle)

\* Python 2 round() of the positive quotient b / a: halves go up.
round_quotient(b, a) == (2 * b + a) \div (2 * a)

\* is_approximate_integer_multiple(vec_a, vec_b) with the library's
\* tolerances, 0.2 on the length ratio and 5 degrees on the angle: the
\* directions agree (or are opposite) and n = |b| / |a| is within 0.2 of
\* an integer; |round(n) - n| < 0.2 is multiplied by 10 |a|.
is_approximate_integer_multiple(vec_a, vec_b) ==
    LET angle == angle_between(vec_a, vec_b)
        n_round == round_quotient(vec_b.length, vec_a.length)
    IN /\ angle < 5 \/ Abs(180 - angle) < 5
       /\ 10 * Abs(n_round * vec_a.length - vec_b.length) < 2 * vec_a.length

\* One pass of the inner for loop's test of candidate v against the kept
\* vector v_u.
clashes(v, v_u) ==
    IF v.length < v_u.length
    THEN is_approximate_integer_multiple(v, v_u)
    ELSE is_approximate_integer_multiple(v_u, v)

\* is_unique after the inner loop over unique_vectors
is_unique(v, kept) ==
    \A k \in DOMAIN kept : ~clashes(v, kept[k])

InitGrid ==
    /\ GeomIdle
    /\ FormatIdle
    /\ LatticeIdle
    /\ IndexIdle
    /\ v_pc = "select"
    /\ vectors \in SeqsUpTo(SearchVectors, MaxVectors) \ { << >> }
    /\ v_i = 0
    /\ unique_vectors = << >>
    /\ v_ret = ReturnedNone

\* One turn of `while len(unique_vectors) < N_UNIQUE_V`: vectors[i] is read
\* with no test of i against the length of the list, so the read raises
\* IndexError once i is past the end.
SelectStep ==
    /\ v_pc = "select"
    /\ Len(unique_vectors) < N_UNIQUE_V
    /\ IF v_i >= Len(vectors)
       THEN /\ v_pc' = "raised"
            /\ v_ret' = Raised("IndexError")
            /\ UNCHANGED <<vectors, v_i, unique_vectors>>
       ELSE LET v == vectors[v_i + 1]
            IN /\ unique_vectors' = IF is_unique(v, unique_vectors)
                                    THEN Append(unique_vectors, v)
                                    ELSE unique_vectors
               /\ v_i' = v_i + 1
               /\ UNCHANGED <<v_pc, vectors, v_ret>>
    /\ UNCHANGED notGridVars

\* The while condition fails: the kept vectors become
\* self.candidate_basis_vectors.
SelectDone ==
    /\ v_pc = "select"
    /\ Len(unique_vectors) >= N_UNIQUE_V
    /\ v_pc' = "chosen"
    /\ v_ret' = Returned(unique_vectors)
    /\ UNCHANGED <<vectors, v_i, unique_vectors>>
    /\ UNCHANGED notGridVars

NextGrid == SelectStep \/ SelectDone

SpecGrid == InitGrid /\ [][NextGrid]_vars

GroupSize == 3

\* The node the rows crowd around.
SharedMiller == << 1, 0, 0 >>

\* Centroids whose rounded Miller index is SharedMiller under the low- or
\* the high-energy beam.
GroupCentroids ==
    { x \in 1..MaxGamma :
        \E b \in 1..2 :
            hkl_int_of(map_centroids_to_reciprocal_space(x, beams[b]))
                = SharedMiller }

RECURSIVE SeqsOfLen(_, _)
SeqsOfLen(S, n) ==
    IF n = 0 THEN { << >> }
    ELSE { Append(q, x) : q \in SeqsOfLen(S, n - 1), x \in S }

\* A table of GroupSize unindexed rows, as the first call of the indexer on
\* an image gets it.
InitIndexGroup ==
    /\ GeomIdle
    /\ FormatIdle
    /\ LatticeIdle
    /\ GridIdle
    /\ i_pc = "entry"
    /\ reflections \in SeqsOfLen({ EntryRow(x, -1) : x \in GroupCentroids },
                                 GroupSize)
    /\ d_min \in DMinChoices
    /\ isel = << >>
    /\ n_rejects = 0
    /\ shoebox = << >>
    /\ variance = << >>
    /\ refined_experiments = << >>
    /\ refined_reflections = << >>
    /\ i_ret = ReturnedNone

SpecIndexGroup == InitIndexGroup /\ [][NextIndex]_vars

\* C17: the assertion of the same-id duplicate pass never fails on a table
\* the assignment step produced, also when three or more rows share a
\* Miller index and earlier swaps of the pass have changed their ids.
C17_AssertionNeverFails ==
    ~(i_pc = "raised" /\ i_ret = Raised("AssertionError"))


\* C18: at the end of index_reflections_detail no two different rows with
\* one non-zero Miller index share an experiment id among 0, 1 and 2,
\* whatever the variances and the rlp magnitudes, equal ones included.
C18_NoDuplicateMillerPerExperiment ==
    i_pc = "detail_done" =>
        \A i, j \in DOMAIN reflections :
            (/\ i # j
             /\ reflections[i].miller_index # ZeroMiller
             /\ reflections[i].miller_index = reflections[j].miller_index
             /\ reflections[i].id = reflections[j].id) =>
                reflections[i].id \notin {0, 1, 2}

=============================================================================
